---- MODULE Spec2Model ----
(***************************************************************************)
(* A model of the livestock-marketplace backend (src/server.js, second     *)
(* revision, lines 492-879, with the mongoose schemas under src/models).   *)
(*                                                                         *)
(* The database collections are the state.  A mongoose document is a TLA+  *)
(* record whose fields are exactly the paths its schema declares, so an    *)
(* update of a path the schema does not declare is dropped, as mongoose's  *)
(* strict mode does.  Under Spec every request handler is one action       *)
(* (requests served one at a time); SpecAuth splits registration at its    *)
(* await points so that two registrations interleave.                      *)
(***************************************************************************)
EXTENDS Integers, Sequences, FiniteSets, Bags, TLC

VARIABLES
    users,        \* the User collection, in insertion order (_id = index)
    livestock,    \* the Livestock collection, by _id
    orders,       \* the Order collection, in insertion order (_id = index)
    proofHashes,  \* the ProofHash collection
    adminNotifs,  \* the AdminNotification collection (a bag)
    now,          \* Date.now(), in minutes
    last,         \* the latest request and the answer it got
    pc, loc,      \* per connection: where a handler is suspended, its locals
    cached,       \* global.mongoose: { conn, promise }
    attempts,     \* the mongoose.connect promises, in order of creation
    jobs          \* the microtask queue: connections whose await resumes next

connVars == <<cached, attempts, jobs>>
vars ==
    <<users, livestock, orders, proofHashes, adminNotifs, now, last, pc, loc,
      cached, attempts, jobs>>

(***************************************************************************)
(* Bounds of the model                                                     *)
(***************************************************************************)
MaxOrders == 2
MaxTicks == 2
MaxNotifs == 1
MaxUsers == 2
MaxAttempts == 3

(***************************************************************************)
(* Program constants                                                       *)
(***************************************************************************)
ExpiryMinutes == 30
TokenMinutes == 30
TickMinutes == ExpiryMinutes

ItemIds == {"g1", "g2"}
Files == {"proofA", "proofB"}
NoFile == "nofile"
Missing == "missing"
NoDoc == [deleted |-> TRUE]
NoCookie == [sig |-> "none"]
NoUser == [id |-> 0]
OrderIds == 1..MaxOrders

getFileHash(buffer) ==
    CASE buffer = "proofA" -> "md5:0cc1"
      [] buffer = "proofB" -> "md5:92eb"
      [] OTHER -> "md5:d41d"

(***************************************************************************)
(* Tokens: jwt.sign / jwt.verify                                           *)
(***************************************************************************)
JWT_SECRET == "change-this-secret-key-123"

createToken(uid, user, t) ==
    [id |-> uid, email |-> user.email, name |-> user.name,
     exp |-> t + TokenMinutes, sig |-> JWT_SECRET]

jwtVerify(token, t) == token.sig = JWT_SECRET /\ t < token.exp

\* A variant of authMiddleware that reads the payload without verifying the
\* token (jwt.decode in place of jwt.verify).
authMiddleware_decodeOnly(cookie, t) ==
    IF cookie.sig = NoCookie.sig
    THEN [ok |-> FALSE, status |-> 401, msg |-> "Not authenticated"]
    ELSE [ok |-> TRUE,
          user |-> [id |-> cookie.id, email |-> cookie.email,
                    name |-> cookie.name]]

authMiddleware(cookie, t) ==
    IF cookie.sig = NoCookie.sig
    THEN [ok |-> FALSE, status |-> 401, msg |-> "Not authenticated"]
    ELSE IF jwtVerify(cookie, t)
         THEN [ok |-> TRUE,
               user |-> [id |-> cookie.id, email |-> cookie.email,
                         name |-> cookie.name]]
         ELSE [ok |-> FALSE, status |-> 401, msg |-> "Invalid or expired token"]

(***************************************************************************)
(* mongoose: documents, strict-mode updates, collections                   *)
(***************************************************************************)
\* An update { path: value, ... } under the schema's strict mode: a path the
\* schema (the document's fields) does not declare is dropped.
SetPaths(doc, upd) ==
    [p \in DOMAIN doc |-> IF p \in DOMAIN upd THEN upd[p] ELSE doc[p]]

\* { $push: { path: value } } under strict mode.
PushPath(doc, path, value) ==
    IF path \in DOMAIN doc
    THEN [p \in DOMAIN doc |-> IF p = path THEN Append(doc[p], value) ELSE doc[p]]
    ELSE doc

\* new Order({...}): the paths of orderSchema, status defaulting to Processing.
\* A variant of newOrderDoc that starts an order without proof as Pending.
newOrderDoc_pendingWithoutProof(user, items, file, date, t) ==
    [customer |-> user.name, userId |-> user.id, date |-> date, items |-> items,
     status |-> IF file = NoFile THEN "Pending" ELSE "Processing",
     paymentProof |-> file, createdAt |-> t]

\* new Order({ items, address, total, date, paymentProof, userId, customer })
\* as stored: status takes the schema's default.
newOrderDoc(user, items, file, date, t) ==
    [customer |-> user.name, userId |-> user.id, date |-> date, items |-> items,
     status |-> "Processing", paymentProof |-> file, createdAt |-> t]

\* The required paths of orderSchema (customer, userId, date, total).
orderValid(doc) == doc.date # Missing

\* new User({...}) as stored: the paths of userSchema.
newUserDoc(name, email, password) ==
    [name |-> name, email |-> email, password |-> password,
     cart |-> {}, wishlist |-> {}, addresses |-> {}]

newLivestockDoc(status) == [status |-> status]

DB == [users |-> users, livestock |-> livestock, orders |-> orders,
       proofHashes |-> proofHashes, adminNotifs |-> adminNotifs]

orderExists(d, oid) == oid \in 1..Len(d.orders)
itemExists(d, i) == i \in ItemIds /\ d.livestock[i] # NoDoc
userExists(d, uid) == uid \in 1..Len(d.users)

\* A variant of updateManyStatus that drops the { $in: itemIds } filter.
updateManyStatus_noFilter(d, itemIds, status) ==
    [d EXCEPT !.livestock =
        [i \in ItemIds |->
            IF d.livestock[i] # NoDoc
            THEN SetPaths(d.livestock[i], [status |-> status])
            ELSE d.livestock[i]]]

\* Livestock.updateMany({ _id: { $in: itemIds } }, { $set: { status } })
updateManyStatus(d, itemIds, status) ==
    [d EXCEPT !.livestock =
        [i \in ItemIds |->
            IF i \in itemIds /\ d.livestock[i] # NoDoc
            THEN SetPaths(d.livestock[i], [status |-> status])
            ELSE d.livestock[i]]]

\* Order.findByIdAndUpdate(id, upd) on an existing order.
updateOrder(d, oid, upd) ==
    [d EXCEPT !.orders[oid] = SetPaths(d.orders[oid], upd)]

\* ProofHash.findOne({ hash })
findProofByHash(d, hash) == {p \in d.proofHashes : p.hash = hash}

\* ProofHash.create({ hash, orderId })
proofHashCreate(d, hash, oid) ==
    [d EXCEPT !.proofHashes = @ \cup {[hash |-> hash, orderId |-> oid]}]

\* ProofHash.findOneAndUpdate({ orderId }, { hash, orderId }, { upsert: true })
proofHashUpsert(d, hash, oid) ==
    [d EXCEPT !.proofHashes =
        IF \E p \in @ : p.orderId = oid
        THEN LET old == CHOOSE p \in @ : p.orderId = oid
             IN (@ \ {old}) \cup {[hash |-> hash, orderId |-> oid]}
        ELSE @ \cup {[hash |-> hash, orderId |-> oid]}]

\* ProofHash.findOneAndDelete({ orderId })
proofHashDelete(d, oid) ==
    [d EXCEPT !.proofHashes =
        IF \E p \in @ : p.orderId = oid
        THEN @ \ {CHOOSE p \in @ : p.orderId = oid}
        ELSE @]

\* AdminNotification.create({ message, type, orderId })
adminNotify(d, type, oid) ==
    [d EXCEPT !.adminNotifs = @ (+) SetToBag({[type |-> type, orderId |-> oid]})]

\* A variant of clearCart that resets the user's whole saved state.
clearCart_wholeState(d, uid) ==
    IF userExists(d, uid)
    THEN [d EXCEPT !.users[uid] =
            SetPaths(@, [cart |-> {}, wishlist |-> {}, addresses |-> {}])]
    ELSE d

\* User.findByIdAndUpdate(id, { $set: { cart: [] } })
clearCart(d, uid) ==
    IF userExists(d, uid)
    THEN [d EXCEPT !.users[uid] = SetPaths(@, [cart |-> {}])]
    ELSE d

Reply(d, status, msg) == [db |-> d, status |-> status, msg |-> msg]

(***************************************************************************)
(* Order handlers                                                          *)
(***************************************************************************)
\* POST /api/orders as the first revision wrote it (src/server.js:400-442):
\* no proof-hash lookup, no ProofHash record.
postOrder_v1(d, user, items, file, date, t) ==
    LET doc == newOrderDoc(user, items, file, date, t)
    IN  IF ~orderValid(doc)
        THEN Reply(d, 500, "Order creation failed")
        ELSE LET d1 == [d EXCEPT !.orders = Append(@, doc)]
                 d3 == IF items # {} THEN updateManyStatus(d1, items, "Sold")
                       ELSE d1
             IN  Reply(clearCart(d3, user.id), 201, "created")

\* POST /api/orders, after authMiddleware.
postOrder(d, user, items, file, date, t) ==
    LET fileHash == getFileHash(file)
        doc == newOrderDoc(user, items, file, date, t)
        oid == Len(d.orders) + 1
    IN  IF file # NoFile /\ findProofByHash(d, fileHash) # {}
        THEN Reply(d, 400, "Duplicate proof detected!")
        ELSE IF ~orderValid(doc)
        THEN Reply(d, 500, "Order creation failed")
        ELSE LET d1 == [d EXCEPT !.orders = Append(@, doc)]
                 d2 == IF file # NoFile
                       THEN adminNotify(proofHashCreate(d1, fileHash, oid),
                                        "success", oid)
                       ELSE d1
                 d3 == IF items # {} THEN updateManyStatus(d2, items, "Sold")
                       ELSE d2
                 d4 == clearCart(d3, user.id)
             IN  Reply(d4, 201, "created")

\* A variant of cancelOrder that saves the order and never restocks.
cancelOrder_noRestock(d, user, oid) ==
    IF ~(orderExists(d, oid) /\ d.orders[oid].userId = user.id)
    THEN Reply(d, 404, "Order not found")
    ELSE IF d.orders[oid].status # "Processing" /\ d.orders[oid].status # "Pending"
    THEN Reply(d, 400, "Cannot cancel order")
    ELSE Reply(proofHashDelete(updateOrder(d, oid, [status |-> "Cancelled"]), oid),
               200, "Order cancelled & items restocked")

\* PUT /api/orders/:id/cancel, after authMiddleware.
cancelOrder(d, user, oid) ==
    IF ~(orderExists(d, oid) /\ d.orders[oid].userId = user.id)
    THEN Reply(d, 404, "Order not found")
    ELSE IF d.orders[oid].status # "Processing" /\ d.orders[oid].status # "Pending"
    THEN Reply(d, 400, "Cannot cancel order")
    ELSE LET d1 == updateOrder(d, oid, [status |-> "Cancelled"])
             ids == d1.orders[oid].items
             d2 == IF ids # {} THEN updateManyStatus(d1, ids, "Available") ELSE d1
             d3 == proofHashDelete(d2, oid)
         IN  Reply(d3, 200, "Order cancelled & items restocked")

\* PUT /api/orders/:id/reupload, after authMiddleware.
reupload(d, user, oid, file) ==
    LET fileHash == getFileHash(file)
        existingProof == findProofByHash(d, fileHash)
    IN  IF file = NoFile
        THEN Reply(d, 400, "No file uploaded")
        ELSE IF \E p \in existingProof : p.orderId # oid
        THEN Reply(d, 400, "Duplicate proof detected!")
        ELSE IF ~(orderExists(d, oid) /\ d.orders[oid].userId = user.id)
        THEN Reply(d, 404, "Order not found")
        ELSE LET d1 == updateOrder(d, oid, [status |-> "Processing",
                                            rejectionReason |-> "",
                                            paymentProof |-> file])
                 d2 == proofHashUpsert(d1, fileHash, oid)
                 d3 == adminNotify(d2, "info", oid)
             IN  Reply(d3, 200, "Proof re-uploaded successfully")

\* A variant of invoice that serves any authenticated caller.
invoice_anyUser(d, user, oid) ==
    IF ~orderExists(d, oid) THEN Reply(d, 404, "Order not found")
    ELSE Reply(d, 200, "invoice")

\* GET /api/orders/:id/invoice, after authMiddleware.
invoice(d, user, oid) ==
    IF ~orderExists(d, oid) THEN Reply(d, 404, "Order not found")
    ELSE IF d.orders[oid].userId # user.id THEN Reply(d, 403, "Access denied")
    ELSE Reply(d, 200, "invoice")

\* GET /api/orders, after authMiddleware: Order.find({ userId: req.user.id }).
getOrders(d, user) == {o \in 1..Len(d.orders) : d.orders[o].userId = user.id}

\* PUT /api/admin/orders/:id/reject (no authMiddleware is mounted).
adminReject(d, oid, reason) ==
    IF ~orderExists(d, oid)
    THEN Reply(d, 404, "Order not found")
    ELSE LET d1 == updateOrder(d, oid,
                       [status |-> "Payment Rejected",
                        rejectionReason |-> IF reason = Missing
                                            THEN "Invalid payment proof."
                                            ELSE reason])
             order == d1.orders[oid]
             ids == order.items
             d2 == IF ids # {} THEN updateManyStatus(d1, ids, "Available") ELSE d1
             d3 == IF userExists(d2, order.userId)
                   THEN [d2 EXCEPT !.users[order.userId] =
                            PushPath(@, "notifications",
                                     [title |-> "Order Cancelled", orderId |-> oid,
                                      seen |-> FALSE])]
                   ELSE d2
         IN  Reply(d3, 200, "Order rejected and items returned to stock")

\* PUT /api/admin/orders/:id (no authMiddleware is mounted).
adminUpdateOrder(d, oid, status) ==
    IF ~orderExists(d, oid)
    THEN Reply(d, 200, "null")
    ELSE Reply(updateOrder(d, oid, [status |-> status]), 200, "order")

\* expireUnpaidOrders, the query: Order.find({ status: 'Pending',
\* createdAt: { $lt: thirtyMinutesAgo } }).
expiredOrders(d, t) ==
    {o \in 1..Len(d.orders) :
        d.orders[o].status = "Pending" /\ d.orders[o].createdAt < t - ExpiryMinutes}

\* A variant of expireOne that cancels the order and records nothing.
expireOne_silent(d, oid) ==
    updateManyStatus(updateOrder(d, oid, [status |-> "Cancelled"]),
                     d.orders[oid].items, "Available")

\* A variant of expireOne that reads the order again and leaves it alone
\* unless it is still Pending.
expireOne_recheck(d, oid) ==
    IF d.orders[oid].status # "Pending" THEN d
    ELSE adminNotify(
             updateManyStatus(updateOrder(d, oid, [status |-> "Cancelled"]),
                              d.orders[oid].items, "Available"),
             "warning", oid)

\* expireUnpaidOrders, the loop body for one order the query returned:
\* order.save() writes the status whatever the stored one is by now.
expireOne(d, oid) ==
    LET d1 == updateOrder(d, oid, [status |-> "Cancelled"])
        d2 == updateManyStatus(d1, d1.orders[oid].items, "Available")
    IN  adminNotify(d2, "warning", oid)

\* The order the loop takes next.
nextExpired(todo) == CHOOSE o \in todo : \A q \in todo : o <= q

(***************************************************************************)
(* Admin inventory and user-state handlers                                 *)
(***************************************************************************)
\* POST /api/admin/livestock (no authMiddleware is mounted): id is the _id
\* the new document gets, status the body's (status || 'Available').
adminCreateLivestock(d, id, status) ==
    Reply([d EXCEPT !.livestock[id] =
              newLivestockDoc(IF status = Missing THEN "Available" ELSE status)],
          201, "livestock")

\* PUT /api/admin/livestock/:id (no authMiddleware is mounted).
adminUpdateLivestock(d, id, status) ==
    IF itemExists(d, id)
    THEN Reply([d EXCEPT !.livestock[id] = SetPaths(@, [status |-> status])],
               200, "livestock")
    ELSE Reply(d, 200, "null")

\* DELETE /api/admin/livestock/:id (no authMiddleware is mounted).
adminDeleteLivestock(d, id) ==
    Reply([d EXCEPT !.livestock[id] = NoDoc], 204, "")

\* DELETE /api/admin/notifications/clear (no authMiddleware is mounted).
adminClearNotifications(d) ==
    Reply([d EXCEPT !.adminNotifs = EmptyBag], 200, "success")

\* PUT /api/user/state, after authMiddleware.
putUserState(d, user, state) ==
    IF userExists(d, user.id)
    THEN Reply([d EXCEPT !.users[user.id] = SetPaths(@, state)],
               200, "State synchronized")
    ELSE Reply(d, 200, "State synchronized")

(***************************************************************************)
(* Routes: the middleware chain in front of each handler.  A route's       *)
(* answer carries req.user as the handler saw it (NoUser: never set).      *)
(***************************************************************************)
Handled(r, user) ==
    [db |-> r.db, status |-> r.status, msg |-> r.msg, user |-> user]

routePostOrder(d, cookie, items, file, date, t) ==
    LET a == authMiddleware(cookie, t)
    IN  IF a.ok THEN Handled(postOrder(d, a.user, items, file, date, t), a.user)
        ELSE Handled(Reply(d, a.status, a.msg), NoUser)

routeCancelOrder(d, cookie, oid, t) ==
    LET a == authMiddleware(cookie, t)
    IN  IF a.ok THEN Handled(cancelOrder(d, a.user, oid), a.user)
        ELSE Handled(Reply(d, a.status, a.msg), NoUser)

routeReupload(d, cookie, oid, file, t) ==
    LET a == authMiddleware(cookie, t)
    IN  IF a.ok THEN Handled(reupload(d, a.user, oid, file), a.user)
        ELSE Handled(Reply(d, a.status, a.msg), NoUser)

routePutUserState(d, cookie, state, t) ==
    LET a == authMiddleware(cookie, t)
    IN  IF a.ok THEN Handled(putUserState(d, a.user, state), a.user)
        ELSE Handled(Reply(d, a.status, a.msg), NoUser)

routeInvoice(d, cookie, oid, t) ==
    LET a == authMiddleware(cookie, t)
    IN  IF a.ok THEN Handled(invoice(d, a.user, oid), a.user)
        ELSE Handled(Reply(d, a.status, a.msg), NoUser)

\* The answer of GET /api/orders carries the list of orders found.
routeGetOrders(d, cookie, t) ==
    LET a == authMiddleware(cookie, t)
    IN  IF a.ok
        THEN [db |-> d, status |-> 200, msg |-> "orders", user |-> a.user,
              body |-> getOrders(d, a.user)]
        ELSE [db |-> d, status |-> a.status, msg |-> a.msg, user |-> NoUser,
              body |-> {}]

\* GET /api/auth/me answers req.user.
routeAuthMe(d, cookie, t) ==
    LET a == authMiddleware(cookie, t)
    IN  IF a.ok THEN Handled(Reply(d, 200, "user"), a.user)
        ELSE Handled(Reply(d, a.status, a.msg), NoUser)

\* The admin routes are mounted without authMiddleware: the cookie is not read.
routeAdminReject(d, cookie, oid, reason, t) ==
    Handled(adminReject(d, oid, reason), NoUser)
routeAdminUpdateOrder(d, cookie, oid, status, t) ==
    Handled(adminUpdateOrder(d, oid, status), NoUser)
routeAdminUpdateLivestock(d, cookie, id, status, t) ==
    Handled(adminUpdateLivestock(d, id, status), NoUser)
routeAdminCreateLivestock(d, cookie, id, status, t) ==
    Handled(adminCreateLivestock(d, id, status), NoUser)
routeAdminDeleteLivestock(d, cookie, id, t) ==
    Handled(adminDeleteLivestock(d, id), NoUser)
routeAdminClearNotifications(d, cookie, t) ==
    Handled(adminClearNotifications(d), NoUser)

(***************************************************************************)
(* Requests a client can send                                              *)
(***************************************************************************)
Slots == 1..2
TimerSlot == 1
AdminSlot == 2

\* A token this server signed for user uid at time t (by register or login).
tokenOf(uid, t) == createToken(uid, users[uid], t)
forgedTokenOf(uid, t) == [createToken(uid, users[uid], t) EXCEPT !.sig = "forged"]

ItemSets == {{}, {"g1"}, {"g1", "g2"}}
Dates == {"2025-01-01", Missing}
Reasons == {"blurry", Missing}
AdminStatuses == {"Pending", "Delivered", "Cancelled"}
LivestockStatuses == {"Available", "Sold", "Reserved", Missing}
Carts == {{}, {"g1"}}
Wishlists == {{}, {"g2"}}
AddressBooks == {{}, {"home"}}

notifTotal(d) == BagCardinality(d.adminNotifs)

numPending(d) ==
    Cardinality({o \in 1..Len(d.orders) : d.orders[o].status = "Pending"})

\* The model's bounds on the collections that grow without limit.  A Pending
\* order keeps room for the notification its expiry will create, so the
\* sweep itself is never held back.
WithinBounds(d) ==
    /\ Len(d.orders) <= MaxOrders
    /\ notifTotal(d) + numPending(d) <= MaxNotifs

Request(route, cookie, oid, file) ==
    [route |-> route, cookie |-> cookie, oid |-> oid, file |-> file]

Commit(r, req) ==
    /\ WithinBounds(r.db)
    /\ users' = r.db.users
    /\ livestock' = r.db.livestock
    /\ orders' = r.db.orders
    /\ proofHashes' = r.db.proofHashes
    /\ adminNotifs' = r.db.adminNotifs
    /\ last' = [req |-> req, status |-> r.status, msg |-> r.msg, user |-> r.user,
                token |-> NoCookie]
    /\ UNCHANGED <<now, pc, loc, connVars>>

(***************************************************************************)
(* Actions: one per request, the timer's sweep, and the clock.  P gives    *)
(* the inputs the clients of a specification send: P.buyers and P.cookies  *)
(* are cookies, P.files uploads, P.items item lists, P.statuses the        *)
(* statuses an admin request carries.                                      *)
(***************************************************************************)
PostOrder(P) ==
    \E cookie \in P.buyers, items \in P.items, file \in P.files, date \in Dates :
        Commit(routePostOrder(DB, cookie, items, file, date, now),
               Request("POST /api/orders", cookie, Len(orders) + 1, file))

CancelOrder(P) ==
    \E cookie \in P.cookies, oid \in OrderIds :
        Commit(routeCancelOrder(DB, cookie, oid, now),
               Request("PUT /api/orders/:id/cancel", cookie, oid, NoFile))

Reupload(P) ==
    \E cookie \in P.cookies, oid \in OrderIds, file \in P.files :
        Commit(routeReupload(DB, cookie, oid, file, now),
               Request("PUT /api/orders/:id/reupload", cookie, oid, file))

Invoice(P) ==
    \E cookie \in P.cookies, oid \in OrderIds :
        Commit(routeInvoice(DB, cookie, oid, now),
               Request("GET /api/orders/:id/invoice", cookie, oid, NoFile))

GetOrders(P) ==
    \E cookie \in P.cookies :
        LET r == routeGetOrders(DB, cookie, now)
        IN  /\ last' = [req |-> Request("GET /api/orders", cookie, 0, NoFile),
                        status |-> r.status, msg |-> r.msg, user |-> r.user,
                        token |-> NoCookie, body |-> r.body]
            /\ UNCHANGED <<users, livestock, orders, proofHashes, adminNotifs,
                           now, pc, loc, connVars>>

PutUserState(P) ==
    \E cookie \in P.cookies, cart \in Carts :
        Commit(routePutUserState(DB, cookie, [cart |-> cart], now),
               Request("PUT /api/user/state", cookie, 0, NoFile))

\* PUT /api/user/state as the client sends it: cart, wishlist, addresses and
\* notifications together.
SyncState(P) ==
    \E cookie \in P.cookies, cart \in Carts, wishlist \in Wishlists,
       addresses \in AddressBooks :
        Commit(routePutUserState(DB, cookie,
                                 [cart |-> cart, wishlist |-> wishlist,
                                  addresses |-> addresses, notifications |-> {}],
                                 now),
               Request("PUT /api/user/state", cookie, 0, NoFile))

AuthMe(P) ==
    \E cookie \in P.cookies :
        Commit(routeAuthMe(DB, cookie, now),
               Request("GET /api/auth/me", cookie, 0, NoFile))

AdminReject(P) ==
    \E cookie \in P.admins, oid \in OrderIds, reason \in Reasons :
        Commit(routeAdminReject(DB, cookie, oid, reason, now),
               Request("PUT /api/admin/orders/:id/reject", cookie, oid, NoFile))

AdminUpdateOrder(P) ==
    \E cookie \in P.admins, oid \in OrderIds, status \in P.statuses :
        Commit(routeAdminUpdateOrder(DB, cookie, oid, status, now),
               Request("PUT /api/admin/orders/:id", cookie, oid, NoFile))

AdminCreateLivestock(P) ==
    \E cookie \in P.admins, id \in ItemIds, status \in LivestockStatuses :
        /\ livestock[id] = NoDoc
        /\ Commit(routeAdminCreateLivestock(DB, cookie, id, status, now),
                  Request("POST /api/admin/livestock", cookie, 0, NoFile))

AdminUpdateLivestock(P) ==
    \E cookie \in P.admins, id \in ItemIds, status \in LivestockStatuses \ {Missing} :
        Commit(routeAdminUpdateLivestock(DB, cookie, id, status, now),
               Request("PUT /api/admin/livestock/:id", cookie, 0, NoFile))

AdminDeleteLivestock(P) ==
    \E cookie \in P.admins, id \in ItemIds :
        Commit(routeAdminDeleteLivestock(DB, cookie, id, now),
               Request("DELETE /api/admin/livestock/:id", cookie, 0, NoFile))

AdminClearNotifications(P) ==
    \E cookie \in P.admins :
        Commit(routeAdminClearNotifications(DB, cookie, now),
               Request("DELETE /api/admin/notifications/clear", cookie, 0, NoFile))

\* expireUnpaidOrders is async: a sweep runs its query, and then its loop one
\* order at a time, while the other callbacks of the event loop take their
\* turns.  Slot TimerSlot holds the sweep setInterval started, slot AdminSlot
\* the sweep GET /api/admin/orders awaits before it lists the orders.
SweepAnswer(route, oid, done) ==
    [req |-> Request(route, NoCookie, oid, NoFile),
     status |-> IF done /\ route = "GET /api/admin/orders" THEN 200 ELSE 0,
     msg |-> IF done /\ route = "GET /api/admin/orders" THEN "orders" ELSE "",
     user |-> NoUser, token |-> NoCookie]

SweepStart(s, route) ==
    /\ LET todo == expiredOrders(DB, now)
       IN  IF todo = {}
           THEN /\ last' = SweepAnswer(route, 0, TRUE)
                /\ UNCHANGED <<pc, loc>>
           ELSE /\ pc' = [pc EXCEPT ![s] = "sweeping"]
                /\ loc' = [loc EXCEPT ![s] = [route |-> route, todo |-> todo]]
                /\ UNCHANGED last
    /\ UNCHANGED <<users, livestock, orders, proofHashes, adminNotifs, now, connVars>>

\* setInterval(expireUnpaidOrders, 60 * 1000)
ExpireTimer ==
    /\ pc[TimerSlot] = "idle"
    /\ SweepStart(TimerSlot, "timer")

\* GET /api/admin/orders (no authMiddleware is mounted).
AdminGetOrders ==
    /\ pc[AdminSlot] = "idle"
    /\ SweepStart(AdminSlot, "GET /api/admin/orders")

\* One turn of the loop of a sweep in flight; after the last order the sweep
\* returns (and GET /api/admin/orders answers the list).
ExpireStep(s) ==
    /\ pc[s] = "sweeping"
    /\ LET oid == nextExpired(loc[s].todo)
           rest == loc[s].todo \ {oid}
           d == expireOne(DB, oid)
       IN  /\ livestock' = d.livestock
           /\ orders' = d.orders
           /\ adminNotifs' = d.adminNotifs
           /\ last' = SweepAnswer(loc[s].route, oid, rest = {})
           /\ IF rest = {}
              THEN /\ pc' = [pc EXCEPT ![s] = "idle"]
                   /\ loc' = [loc EXCEPT ![s] = [route |-> "none"]]
              ELSE /\ loc' = [loc EXCEPT ![s].todo = rest]
                   /\ UNCHANGED pc
    /\ UNCHANGED <<users, proofHashes, now, connVars>>

Tick ==
    /\ now < MaxTicks * TickMinutes
    /\ now' = now + TickMinutes
    /\ last' = [req |-> Request("clock", NoCookie, 0, NoFile), status |-> 0,
                msg |-> "", user |-> NoUser, token |-> NoCookie]
    /\ UNCHANGED <<users, livestock, orders, proofHashes, adminNotifs, pc, loc,
                   connVars>>

(***************************************************************************)
(* Failing writes.  Every handler wraps its awaits in one try/catch: a     *)
(* database write that throws ends the handler in its catch clause, after  *)
(* the writes that came before it.  fail names the write that is to throw; *)
(* a handler that never gets to that write is not disturbed.               *)
(***************************************************************************)
Faults == {"none", "save", "proof", "notify", "restock", "cart", "push"}

Threw(d, status, msg) ==
    [db |-> d, status |-> status, msg |-> msg, threw |-> TRUE]
Fine(r) ==
    [db |-> r.db, status |-> r.status, msg |-> r.msg, threw |-> FALSE]

\* POST /api/orders: newOrder.save(), ProofHash.create, AdminNotification
\* .create, Livestock.updateMany, User.findByIdAndUpdate.
postOrderFaulty(d, user, items, file, date, t, fail) ==
    LET fileHash == getFileHash(file)
        doc == newOrderDoc(user, items, file, date, t)
        oid == Len(d.orders) + 1
        caught(dd) == Threw(dd, 500, "Order creation failed")
        d1 == [d EXCEPT !.orders = Append(@, doc)]
        d2 == IF file # NoFile THEN proofHashCreate(d1, fileHash, oid) ELSE d1
        d3 == IF file # NoFile THEN adminNotify(d2, "success", oid) ELSE d2
        d4 == IF items # {} THEN updateManyStatus(d3, items, "Sold") ELSE d3
        d5 == clearCart(d4, user.id)
    IN  IF file # NoFile /\ findProofByHash(d, fileHash) # {}
        THEN Fine(Reply(d, 400, "Duplicate proof detected!"))
        ELSE IF ~orderValid(doc) THEN Fine(Reply(d, 500, "Order creation failed"))
        ELSE IF fail = "save" THEN caught(d)
        ELSE IF fail = "proof" /\ file # NoFile THEN caught(d1)
        ELSE IF fail = "notify" /\ file # NoFile THEN caught(d2)
        ELSE IF fail = "restock" /\ items # {} THEN caught(d3)
        ELSE IF fail = "cart" THEN caught(d4)
        ELSE Fine(Reply(d5, 201, "created"))

\* A variant of cancelOrderFaulty that runs in a transaction: a write that
\* throws rolls the earlier ones back.
cancelOrderFaulty_rollback(d, user, oid, fail) ==
    IF ~(orderExists(d, oid) /\ d.orders[oid].userId = user.id)
    THEN Fine(Reply(d, 404, "Order not found"))
    ELSE IF d.orders[oid].status # "Processing" /\ d.orders[oid].status # "Pending"
    THEN Fine(Reply(d, 400, "Cannot cancel order"))
    ELSE IF fail = "save" \/ fail = "proof"
            \/ (fail = "restock" /\ d.orders[oid].items # {})
    THEN Threw(d, 500, "Cancellation failed")
    ELSE Fine(cancelOrder(d, user, oid))

\* PUT /api/orders/:id/cancel: order.save(), Livestock.updateMany,
\* ProofHash.findOneAndDelete.
cancelOrderFaulty(d, user, oid, fail) ==
    IF ~(orderExists(d, oid) /\ d.orders[oid].userId = user.id)
    THEN Fine(Reply(d, 404, "Order not found"))
    ELSE IF d.orders[oid].status # "Processing" /\ d.orders[oid].status # "Pending"
    THEN Fine(Reply(d, 400, "Cannot cancel order"))
    ELSE LET caught(dd) == Threw(dd, 500, "Cancellation failed")
             d1 == updateOrder(d, oid, [status |-> "Cancelled"])
             ids == d1.orders[oid].items
             d2 == IF ids # {} THEN updateManyStatus(d1, ids, "Available") ELSE d1
             d3 == proofHashDelete(d2, oid)
         IN  IF fail = "save" THEN caught(d)
             ELSE IF fail = "restock" /\ ids # {} THEN caught(d1)
             ELSE IF fail = "proof" THEN caught(d2)
             ELSE Fine(Reply(d3, 200, "Order cancelled & items restocked"))

\* PUT /api/admin/orders/:id/reject: Order.findByIdAndUpdate,
\* Livestock.updateMany, User.findByIdAndUpdate ($push).
adminRejectFaulty(d, oid, reason, fail) ==
    IF fail = "save" THEN Threw(d, 500, "error")
    ELSE IF ~orderExists(d, oid) THEN Fine(Reply(d, 404, "Order not found"))
    ELSE LET d1 == updateOrder(d, oid,
                       [status |-> "Payment Rejected",
                        rejectionReason |-> IF reason = Missing
                                            THEN "Invalid payment proof."
                                            ELSE reason])
             ids == d1.orders[oid].items
             d2 == IF ids # {} THEN updateManyStatus(d1, ids, "Available") ELSE d1
         IN  IF fail = "restock" /\ ids # {} THEN Threw(d1, 500, "error")
             ELSE IF fail = "push" THEN Threw(d2, 500, "error")
             ELSE Fine(adminReject(d, oid, reason))

\* expireUnpaidOrders, the loop body: order.save(), Livestock.updateMany,
\* AdminNotification.create.  Its catch clause logs the error and returns.
expireOneFaulty(d, oid, fail) ==
    LET d1 == updateOrder(d, oid, [status |-> "Cancelled"])
        d2 == updateManyStatus(d1, d1.orders[oid].items, "Available")
    IN  IF fail = "save" THEN [db |-> d, threw |-> TRUE]
        ELSE IF fail = "restock" THEN [db |-> d1, threw |-> TRUE]
        ELSE IF fail = "notify" THEN [db |-> d2, threw |-> TRUE]
        ELSE [db |-> expireOne(d, oid), threw |-> FALSE]

\* PUT /api/user/state: User.findByIdAndUpdate; its catch clause answers 400
\* 'Failed to save state'.
putUserStateFaulty(d, user, state, fail) ==
    IF fail = "save" THEN Threw(d, 400, "Failed to save state")
    ELSE Fine(putUserState(d, user, state))

FaultRequest(route, cookie, oid, file, fail) ==
    [route |-> route, cookie |-> cookie, oid |-> oid, file |-> file,
     fail |-> fail]

\* The request as recorded names the write that threw, if one did.
CommitFaulty(r, user, request) ==
    /\ WithinBounds(r.db)
    /\ users' = r.db.users
    /\ livestock' = r.db.livestock
    /\ orders' = r.db.orders
    /\ proofHashes' = r.db.proofHashes
    /\ adminNotifs' = r.db.adminNotifs
    /\ last' = [req |-> IF r.threw THEN request
                        ELSE [request EXCEPT !.fail = "none"],
                status |-> r.status, msg |-> r.msg, user |-> user,
                token |-> NoCookie, threw |-> r.threw]
    /\ UNCHANGED <<now, pc, loc, connVars>>

PostOrderFaulty(P) ==
    \E cookie \in P.buyers, items \in P.items, file \in P.files, date \in Dates,
       fail \in Faults \ {"push"} :
        LET a == authMiddleware(cookie, now)
            req == FaultRequest("POST /api/orders", cookie, Len(orders) + 1,
                                file, fail)
        IN  IF a.ok
            THEN CommitFaulty(postOrderFaulty(DB, a.user, items, file, date,
                                              now, fail), a.user, req)
            ELSE CommitFaulty(Fine(Reply(DB, a.status, a.msg)), NoUser, req)

CancelOrderFaulty(P) ==
    \E cookie \in P.cookies, oid \in OrderIds,
       fail \in {"none", "save", "restock", "proof"} :
        LET a == authMiddleware(cookie, now)
            req == FaultRequest("PUT /api/orders/:id/cancel", cookie, oid,
                                NoFile, fail)
        IN  IF a.ok
            THEN CommitFaulty(cancelOrderFaulty(DB, a.user, oid, fail),
                              a.user, req)
            ELSE CommitFaulty(Fine(Reply(DB, a.status, a.msg)), NoUser, req)

PutUserStateFaulty(P) ==
    \E cookie \in P.cookies, cart \in Carts, fail \in {"none", "save"} :
        LET a == authMiddleware(cookie, now)
            req == FaultRequest("PUT /api/user/state", cookie, 0, NoFile, fail)
        IN  IF a.ok
            THEN CommitFaulty(putUserStateFaulty(DB, a.user, [cart |-> cart], fail),
                              a.user, req)
            ELSE CommitFaulty(Fine(Reply(DB, a.status, a.msg)), NoUser, req)

AdminRejectFaulty(P) ==
    \E cookie \in P.admins, oid \in OrderIds, reason \in Reasons,
       fail \in {"none", "save", "restock", "push"} :
        CommitFaulty(adminRejectFaulty(DB, oid, reason, fail), NoUser,
                     FaultRequest("PUT /api/admin/orders/:id/reject", cookie,
                                  oid, NoFile, fail))

\* One turn of a sweep's loop, with a write that may throw: the catch clause
\* ends the sweep, and GET /api/admin/orders goes on to answer the list.
ExpireStepFaulty(s) ==
    /\ pc[s] = "sweeping"
    /\ \E fail \in {"none", "save", "restock", "notify"} :
          LET oid == nextExpired(loc[s].todo)
              rest == loc[s].todo \ {oid}
              r == expireOneFaulty(DB, oid, fail)
              done == r.threw \/ rest = {}
              answer == SweepAnswer(loc[s].route, oid, done)
          IN  /\ livestock' = r.db.livestock
              /\ orders' = r.db.orders
              /\ adminNotifs' = r.db.adminNotifs
              /\ last' = [req |-> FaultRequest(loc[s].route, NoCookie, oid,
                                               NoFile, fail),
                          status |-> answer.status, msg |-> answer.msg,
                          user |-> NoUser, token |-> NoCookie,
                          threw |-> r.threw]
              /\ IF done
                 THEN /\ pc' = [pc EXCEPT ![s] = "idle"]
                      /\ loc' = [loc EXCEPT ![s] = [route |-> "none"]]
                 ELSE /\ loc' = [loc EXCEPT ![s].todo = rest]
                      /\ UNCHANGED pc
    /\ UNCHANGED <<users, proofHashes, now, connVars>>

(***************************************************************************)
(* Passwords: userSchema.pre('save') and comparePassword                   *)
(***************************************************************************)
pwCode(password) ==
    CASE password = "pw1" -> 3 [] password = "pw2" -> 5 [] OTHER -> 0
bcryptDigest(password, salt) == (pwCode(password) * 7 + salt * 11) % 31
bcryptHash(password, salt) ==
    [salt |-> salt, digest |-> bcryptDigest(password, salt)]
Salts == {1, 2}

\* A variant of comparePassword whose answer is always taken for true (the
\* promise bcrypt.compare returns, tested without await).
comparePassword_noAwait(candidate, stored) == TRUE

comparePassword(candidate, stored) ==
    bcryptDigest(candidate, stored.salt) = stored.digest

(***************************************************************************)
(* Auth handlers: POST /api/auth/register and POST /api/auth/login         *)
(***************************************************************************)
Names == {"carol", ""}
Emails == {"a@x.in", "A@x.in", "b@x.in", ""}
Passwords == {"pw1", "pw2", ""}

\* userSchema.email: { lowercase: true, trim: true }
normalizeEmail(email) == IF email = "A@x.in" THEN "a@x.in" ELSE email

\* User.findOne({ email }).  mongoose 5 and later run the schema's setters on
\* the filter, mongoose 4 sends it as written: cast says which.
findOneByEmail(d, email, cast) ==
    {i \in 1..Len(d.users) :
        d.users[i].email = IF cast THEN normalizeEmail(email) ELSE email}

\* A variant of uniqueIndexOk for a collection without the unique index.
uniqueIndexOk_noIndex(d, email) == TRUE

\* The unique index on User.email: may a document of this email be inserted.
uniqueIndexOk(d, email) == \A i \in 1..Len(d.users) : d.users[i].email # email

AuthRequest(route, name, email, password) ==
    [route |-> route, cookie |-> NoCookie, oid |-> 0, file |-> NoFile,
     name |-> name, email |-> email, password |-> password]

AuthAnswer(req, status, msg, token) ==
    [req |-> req, status |-> status, msg |-> msg, user |-> NoUser,
     token |-> token]

\* Registrations that passed findOne and have not saved yet.
saving == {s \in Slots : pc[s] = "saving"}

\* POST /api/auth/register up to the answer of User.findOne: the handler
\* answers 400 or 409, or goes on to save.
RegisterFind(s) ==
    /\ pc[s] = "idle"
    /\ \E name \in Names, email \in Emails, password \in Passwords,
          cast \in BOOLEAN :
          LET req == AuthRequest("POST /api/auth/register", name, email, password)
          IN  IF name = "" \/ email = "" \/ password = ""
              THEN /\ last' = AuthAnswer(req, 400, "All fields required", NoCookie)
                   /\ UNCHANGED <<pc, loc>>
              ELSE IF findOneByEmail(DB, email, cast) # {}
              THEN /\ last' = AuthAnswer(req, 409, "Email already exists", NoCookie)
                   /\ UNCHANGED <<pc, loc>>
              ELSE /\ Len(users) + Cardinality(saving) < MaxUsers
                   /\ pc' = [pc EXCEPT ![s] = "saving"]
                   /\ loc' = [loc EXCEPT ![s] = req]
                   /\ last' = AuthAnswer(req, 0, "", NoCookie)
    /\ UNCHANGED <<users, livestock, orders, proofHashes, adminNotifs, now, connVars>>

\* POST /api/auth/register from newUser.save() on: the pre-save hook hashes
\* the password, the insert passes the unique index or throws (500).
RegisterSave(s) ==
    /\ pc[s] = "saving"
    /\ \E salt \in Salts :
          LET req == loc[s]
              newUser == newUserDoc(req.name, normalizeEmail(req.email),
                                    bcryptHash(req.password, salt))
          IN  IF uniqueIndexOk(DB, newUser.email)
              THEN /\ users' = Append(users, newUser)
                   /\ last' = AuthAnswer(req, 201, "user",
                                         createToken(Len(users) + 1, newUser, now))
              ELSE /\ users' = users
                   /\ last' = AuthAnswer(req, 500, "Server error", NoCookie)
    /\ pc' = [pc EXCEPT ![s] = "idle"]
    /\ loc' = [loc EXCEPT ![s] = [route |-> "none"]]
    /\ UNCHANGED <<livestock, orders, proofHashes, adminNotifs, now, connVars>>

\* POST /api/auth/login
login(d, email, password, cast, t) ==
    LET found == findOneByEmail(d, email, cast)
        uid == CHOOSE i \in found : TRUE
    IN  IF email = "" \/ password = ""
        THEN [status |-> 400, msg |-> "Credentials required", token |-> NoCookie]
        ELSE IF found = {} \/ ~comparePassword(password, d.users[uid].password)
        THEN [status |-> 400, msg |-> "Invalid credentials", token |-> NoCookie]
        ELSE [status |-> 200, msg |-> "user",
              token |-> createToken(uid, d.users[uid], t)]

Login ==
    /\ \E email \in Emails, password \in Passwords, cast \in BOOLEAN :
          LET r == login(DB, email, password, cast, now)
          IN  last' = AuthAnswer(AuthRequest("POST /api/auth/login", "", email,
                                             password),
                                 r.status, r.msg, r.token)
    /\ UNCHANGED <<users, livestock, orders, proofHashes, adminNotifs, now, pc, loc, connVars>>

(***************************************************************************)
(* Specifications                                                          *)
(***************************************************************************)
\* A running shop: two registered users and two animals on sale, no orders.
Init ==
    /\ users = <<newUserDoc("alice", "a@x.in", bcryptHash("pw1", 1)),
                 newUserDoc("bob", "b@x.in", bcryptHash("pw2", 2))>>
    /\ livestock = [i \in ItemIds |-> newLivestockDoc("Available")]
    /\ orders = <<>>
    /\ proofHashes = {}
    /\ adminNotifs = EmptyBag
    /\ now = 0
    /\ last = [req |-> Request("none", NoCookie, 0, NoFile),
               status |-> 0, msg |-> "", user |-> NoUser, token |-> NoCookie]
    /\ pc = [s \in Slots |-> "idle"]
    /\ loc = [s \in Slots |-> [route |-> "none"]]
    /\ cached = [conn |-> "mongoose", promise |-> 1]
    /\ attempts = <<[state |-> "fulfilled", waiters |-> <<>>]>>
    /\ jobs = <<>>

\* The shop: alice buys; alice and bob cancel and re-upload; the admin
\* console sends no cookie.
Shop ==
    [buyers |-> {tokenOf(1, now)},
     cookies |-> {tokenOf(1, now), tokenOf(2, now)},
     admins |-> {NoCookie},
     items |-> ItemSets,
     files |-> {"proofA", NoFile},
     statuses |-> AdminStatuses]

Next ==
    \/ PostOrder(Shop)
    \/ CancelOrder(Shop)
    \/ Reupload(Shop)
    \/ AdminReject(Shop)
    \/ AdminUpdateOrder(Shop)
    \/ AdminClearNotifications(Shop)

Spec == Init /\ [][Next]_vars

\* The auth guard: clients present no cookie, a forged token, a token
\* signed at time 0 (expired once the clock has advanced) and fresh tokens.
Guarded ==
    [buyers |-> {NoCookie, forgedTokenOf(1, now), tokenOf(1, 0), tokenOf(2, now)},
     cookies |-> {NoCookie, forgedTokenOf(1, now), tokenOf(1, 0), tokenOf(2, now)},
     admins |-> {NoCookie},
     items |-> {{"g1"}},
     files |-> {NoFile},
     statuses |-> {}]

NextGuard ==
    \/ PostOrder(Guarded)
    \/ CancelOrder(Guarded)
    \/ Reupload(Guarded)
    \/ PutUserState(Guarded)
    \/ AuthMe(Guarded)
    \/ Tick

SpecGuard == Init /\ [][NextGuard]_vars

\* Ownership: alice and bob both order, and each tries the other's orders.
Owners ==
    [buyers |-> {tokenOf(1, now), tokenOf(2, now)},
     cookies |-> {tokenOf(1, now), tokenOf(2, now)},
     admins |-> {NoCookie},
     items |-> {{"g1"}},
     files |-> {"proofA", NoFile},
     statuses |-> {"Delivered"}]

NextOwner ==
    \/ PostOrder(Owners)
    \/ CancelOrder(Owners)
    \/ Reupload(Owners)
    \/ Invoice(Owners)
    \/ GetOrders(Owners)
    \/ AdminUpdateOrder(Owners)
    \/ AdminClearNotifications(Owners)

SpecOwner == Init /\ [][NextOwner]_vars

\* The admin console: alice orders and cancels; the console sets order and
\* livestock statuses as its request bodies say, creates and deletes items.
Console ==
    [buyers |-> {tokenOf(1, now)},
     cookies |-> {tokenOf(1, now)},
     admins |-> {NoCookie},
     items |-> {{"g1"}},
     files |-> {NoFile},
     statuses |-> {"Delivered", "Shipped"}]

NextAdmin ==
    \/ PostOrder(Console)
    \/ CancelOrder(Console)
    \/ AdminReject(Console)
    \/ AdminUpdateOrder(Console)
    \/ AdminCreateLivestock(Console)
    \/ AdminUpdateLivestock(Console)
    \/ AdminDeleteLivestock(Console)

SpecAdmin == Init /\ [][NextAdmin]_vars

\* The sweep against the console: as Sweeping, and the admin console also
\* marks orders Delivered while sweeps are in flight.
Racing ==
    [buyers |-> {tokenOf(1, now)},
     cookies |-> {tokenOf(1, now)},
     admins |-> {NoCookie},
     items |-> {{"g1"}},
     files |-> {NoFile},
     statuses |-> {"Pending", "Delivered"}]

NextRace ==
    \/ PostOrder(Racing)
    \/ AdminUpdateOrder(Racing)
    \/ AdminClearNotifications(Racing)
    \/ ExpireTimer
    \/ AdminGetOrders
    \/ \E s \in Slots : ExpireStep(s)
    \/ Tick

SpecRace ==
    /\ Init /\ [][NextRace]_vars
    /\ WF_vars(ExpireTimer)
    /\ \A s \in Slots : WF_vars(ExpireStep(s))

\* Failing writes: alice orders and cancels, the console rejects and marks
\* orders Pending, the sweeps run, and any one write of a handler may throw.
Faulty ==
    [buyers |-> {tokenOf(1, now)},
     cookies |-> {tokenOf(1, now)},
     admins |-> {NoCookie},
     items |-> {{"g1"}},
     files |-> {"proofA", NoFile},
     statuses |-> {"Pending"}]

NextFault ==
    \/ PostOrderFaulty(Faulty)
    \/ CancelOrderFaulty(Faulty)
    \/ AdminRejectFaulty(Faulty)
    \/ AdminUpdateOrder(Faulty)
    \/ AdminClearNotifications(Faulty)
    \/ ExpireTimer
    \/ AdminGetOrders
    \/ \E s \in Slots : ExpireStepFaulty(s)
    \/ Tick

SpecFault == Init /\ [][NextFault]_vars

\* PUT /api/orders/:id/cancel from order.save() on, for the document that
\* findOne returned: save sets the one modified path, status.
cancelSave(d, oid) ==
    LET d1 == updateOrder(d, oid, [status |-> "Cancelled"])
        ids == d1.orders[oid].items
        d2 == IF ids # {} THEN updateManyStatus(d1, ids, "Available") ELSE d1
        d3 == proofHashDelete(d2, oid)
    IN  Reply(d3, 200, "Order cancelled & items restocked")

\* PUT /api/orders/:id/cancel up to the answer of Order.findOne: the handler
\* answers 401, 404 or 400, or goes on to save the order it has read.
CancelFind(P, s) ==
    /\ pc[s] = "idle"
    /\ \E cookie \in P.cookies, oid \in OrderIds :
          LET a == authMiddleware(cookie, now)
              req == Request("PUT /api/orders/:id/cancel", cookie, oid, NoFile)
              r == routeCancelOrder(DB, cookie, oid, now)
          IN  IF r.status # 200
              THEN Commit(r, req)
              ELSE /\ pc' = [pc EXCEPT ![s] = "cancelling"]
                   /\ loc' = [loc EXCEPT ![s] =
                                [route |-> req.route, req |-> req, user |-> a.user,
                                 oid |-> oid]]
                   /\ last' = [req |-> req, status |-> 0, msg |-> "",
                               user |-> a.user, token |-> NoCookie]
                   /\ UNCHANGED <<users, livestock, orders, proofHashes,
                                  adminNotifs, now, connVars>>

\* PUT /api/orders/:id/cancel from order.save() to the answer.
CancelSave(s) ==
    /\ pc[s] = "cancelling"
    /\ LET r == cancelSave(DB, loc[s].oid)
       IN  /\ users' = r.db.users
           /\ livestock' = r.db.livestock
           /\ orders' = r.db.orders
           /\ proofHashes' = r.db.proofHashes
           /\ adminNotifs' = r.db.adminNotifs
           /\ last' = [req |-> loc[s].req, status |-> r.status, msg |-> r.msg,
                       user |-> loc[s].user, token |-> NoCookie]
    /\ pc' = [pc EXCEPT ![s] = "idle"]
    /\ loc' = [loc EXCEPT ![s] = [route |-> "none"]]
    /\ UNCHANGED <<now, connVars>>

\* Cancelling: alice and bob order and cancel while the console marks orders
\* delivered or rejected.
Cancelling ==
    [buyers |-> {tokenOf(1, now)},
     cookies |-> {tokenOf(1, now), tokenOf(2, now)},
     admins |-> {NoCookie},
     items |-> {{"g1"}, {"g2"}},
     files |-> {"proofA", NoFile},
     statuses |-> {"Delivered", "Payment Rejected"}]

NextCancel ==
    \/ PostOrder(Cancelling)
    \/ AdminUpdateOrder(Cancelling)
    \/ \E s \in Slots : CancelFind(Cancelling, s)
    \/ \E s \in Slots : CancelSave(s)

SpecCancel == Init /\ [][NextCancel]_vars

\* PUT /api/orders/:id/reupload from ProofHash.findOneAndUpdate on: the upsert
\* passes the unique index on hash or throws (500), then the notification.
reuploadUpsert(d, oid, file) ==
    LET fileHash == getFileHash(file)
    IN  IF \E p \in findProofByHash(d, fileHash) : p.orderId # oid
        THEN Reply(d, 500, "Re-upload failed")
        ELSE Reply(adminNotify(proofHashUpsert(d, fileHash, oid), "info", oid),
                   200, "Proof re-uploaded successfully")

\* PUT /api/orders/:id/reupload up to the answer of Order.findByIdAndUpdate:
\* the handler answers 401, 400 or 404, or has written the order and goes on
\* to the proof-hash upsert.
ReuploadUpdate(P, s) ==
    /\ pc[s] = "idle"
    /\ \E cookie \in P.cookies, oid \in OrderIds, file \in P.files :
          LET a == authMiddleware(cookie, now)
              req == Request("PUT /api/orders/:id/reupload", cookie, oid, file)
              r == routeReupload(DB, cookie, oid, file, now)
          IN  IF r.status # 200
              THEN Commit(r, req)
              ELSE /\ orders' = updateOrder(DB, oid,
                                            [status |-> "Processing",
                                             rejectionReason |-> "",
                                             paymentProof |-> file]).orders
                   /\ pc' = [pc EXCEPT ![s] = "upserting"]
                   /\ loc' = [loc EXCEPT ![s] =
                                [route |-> req.route, req |-> req, user |-> a.user,
                                 oid |-> oid, file |-> file]]
                   /\ last' = [req |-> req, status |-> 0, msg |-> "",
                               user |-> a.user, token |-> NoCookie]
                   /\ UNCHANGED <<users, livestock, proofHashes, adminNotifs, now, connVars>>

\* PUT /api/orders/:id/reupload from the proof-hash upsert to the answer.
ReuploadUpsert(s) ==
    /\ pc[s] = "upserting"
    /\ LET r == reuploadUpsert(DB, loc[s].oid, loc[s].file)
       IN  /\ WithinBounds(r.db)
           /\ proofHashes' = r.db.proofHashes
           /\ adminNotifs' = r.db.adminNotifs
           /\ last' = [req |-> loc[s].req, status |-> r.status, msg |-> r.msg,
                       user |-> loc[s].user, token |-> NoCookie]
    /\ pc' = [pc EXCEPT ![s] = "idle"]
    /\ loc' = [loc EXCEPT ![s] = [route |-> "none"]]
    /\ UNCHANGED <<users, livestock, orders, now, connVars>>

\* Proofs: alice orders with or without a proof, re-uploads from two tabs and
\* cancels; the console rejects and clears its notifications.
Proving ==
    [buyers |-> {tokenOf(1, now)},
     cookies |-> {tokenOf(1, now)},
     admins |-> {NoCookie},
     items |-> {{"g1"}},
     files |-> Files \cup {NoFile},
     statuses |-> {}]

NextProof ==
    \/ PostOrder(Proving)
    \/ CancelOrder(Proving)
    \/ AdminReject(Proving)
    \/ AdminClearNotifications(Proving)
    \/ \E s \in Slots : ReuploadUpdate(Proving, s)
    \/ \E s \in Slots : ReuploadUpsert(s)

SpecProof == Init /\ [][NextProof]_vars

(***************************************************************************)
(* The database connection.  Every request passes the connection           *)
(* middleware first.  A request arrives, and a connect attempt settles, as  *)
(* a task of the event loop, which starts only when the microtask queue is  *)
(* empty; the continuation of each await is a microtask.                    *)
(***************************************************************************)
Null == "null"
Mongoose == "mongoose"
ConnRoutes == {"GET /api/livestock", "GET /api/auth/me"}

\* A variant of mustConnect that looks at cached.conn only.
mustConnect_connOnly(c) == c.conn = Null

\* connectDB: neither a connection nor a pending promise is cached.
mustConnect(c) == c.conn = Null /\ c.promise = 0

ConnAnswer(route, status, msg) ==
    [req |-> Request(route, NoCookie, 0, NoFile), status |-> status,
     msg |-> msg, user |-> NoUser, token |-> NoCookie]

\* A request enters the middleware and runs connectDB up to its await: it
\* returns the cached connection (next() is called), or awaits the cached
\* promise, after starting mongoose.connect when there is none.
Arrive(s) ==
    /\ pc[s] = "idle" /\ jobs = <<>>
    /\ \E route \in ConnRoutes :
          IF cached.conn # Null
          THEN /\ last' = ConnAnswer(route, 0, "next")
               /\ UNCHANGED <<pc, loc, cached, attempts>>
          ELSE LET fresh == mustConnect(cached)
                   p == IF fresh THEN Len(attempts) + 1 ELSE cached.promise
                   started == IF fresh
                              THEN Append(attempts, [state |-> "pending",
                                                     waiters |-> <<>>])
                              ELSE attempts
               IN  /\ fresh => Len(attempts) < MaxAttempts
                   /\ p \in 1..Len(started)
                   /\ cached' = [cached EXCEPT !.promise = p]
                   /\ attempts' = [started EXCEPT ![p].waiters = Append(@, s)]
                   /\ pc' = [pc EXCEPT ![s] = "awaiting"]
                   /\ loc' = [loc EXCEPT ![s] = [route |-> route, promise |-> p]]
                   /\ last' = ConnAnswer(route, 0, "await")
    /\ UNCHANGED <<users, livestock, orders, proofHashes, adminNotifs, now, jobs>>

\* mongoose.connect settles: the continuations of the requests awaiting the
\* promise are queued in the order they began to wait.
Settle(p, outcome) ==
    /\ jobs = <<>>
    /\ p \in 1..Len(attempts) /\ attempts[p].state = "pending"
    /\ attempts' = [attempts EXCEPT ![p].state = outcome]
    /\ jobs' = attempts[p].waiters
    /\ last' = ConnAnswer("mongoose.connect", 0, outcome)
    /\ UNCHANGED <<users, livestock, orders, proofHashes, adminNotifs, now,
                   pc, loc, cached>>

\* The promise of mongoose.connect is fulfilled.
ConnectSucceeds ==
    /\ attempts # <<>>
    /\ \E p \in 1..MaxAttempts : Settle(p, "fulfilled")

\* The promise of mongoose.connect is rejected (server selection timed out).
ConnectFails ==
    /\ Len(attempts) >= 1
    /\ \E p \in 1..MaxAttempts : Settle(p, "rejected")

\* connectDB after its await, for the request at the head of the microtask
\* queue: it caches the connection and next() is called, or it resets
\* cached.promise and the middleware answers 500.
Resume(s) ==
    /\ jobs # <<>> /\ Head(jobs) = s /\ pc[s] = "awaiting"
    /\ IF attempts[loc[s].promise].state = "fulfilled"
       THEN /\ cached' = [cached EXCEPT !.conn = Mongoose]
            /\ last' = ConnAnswer(loc[s].route, 0, "next")
       ELSE /\ cached' = [cached EXCEPT !.promise = 0]
            /\ last' = ConnAnswer(loc[s].route, 500, "Database connection failed")
    /\ jobs' = Tail(jobs)
    /\ pc' = [pc EXCEPT ![s] = "idle"]
    /\ loc' = [loc EXCEPT ![s] = [route |-> "none"]]
    /\ UNCHANGED <<users, livestock, orders, proofHashes, adminNotifs, now,
                   attempts>>

\* A cold start: nothing is cached.
InitConn ==
    /\ users = <<>>
    /\ livestock = [i \in ItemIds |-> newLivestockDoc("Available")]
    /\ orders = <<>>
    /\ proofHashes = {}
    /\ adminNotifs = EmptyBag
    /\ now = 0
    /\ last = ConnAnswer("none", 0, "")
    /\ pc = [s \in Slots |-> "idle"]
    /\ loc = [s \in Slots |-> [route |-> "none"]]
    /\ cached = [conn |-> Null, promise |-> 0]
    /\ attempts = <<>>
    /\ jobs = <<>>

NextConn ==
    \/ \E s \in Slots : Arrive(s)
    \/ ConnectSucceeds
    \/ ConnectFails
    \/ \E s \in Slots : Resume(s)

SpecConn == InitConn /\ [][NextConn]_vars

\* Order status: alice orders with and without proof, re-uploads and
\* cancels; the console rejects, sets statuses and lists the orders; the
\* timer sweeps as the clock advances.
Starting ==
    [buyers |-> {tokenOf(1, now)},
     cookies |-> {tokenOf(1, now)},
     admins |-> {NoCookie},
     items |-> {{"g1"}},
     files |-> {"proofA", NoFile},
     statuses |-> {"Pending", "Delivered"}]

NextStart ==
    \/ PostOrder(Starting)
    \/ CancelOrder(Starting)
    \/ Reupload(Starting)
    \/ AdminReject(Starting)
    \/ AdminUpdateOrder(Starting)
    \/ AdminClearNotifications(Starting)
    \/ ExpireTimer
    \/ AdminGetOrders
    \/ \E s \in Slots : ExpireStep(s)
    \/ Tick

SpecStart == Init /\ [][NextStart]_vars

\* user.notifications || []
feedOf(user) ==
    IF "notifications" \in DOMAIN user THEN user.notifications ELSE <<>>

\* GET /api/user/state, after authMiddleware.
getUserState(d, user) ==
    IF ~userExists(d, user.id)
    THEN [status |-> 404, msg |-> "User not found", body |-> [cart |-> {}]]
    ELSE [status |-> 200, msg |-> "state",
          body |-> [cart |-> d.users[user.id].cart,
                    wishlist |-> d.users[user.id].wishlist,
                    addresses |-> d.users[user.id].addresses,
                    notifications |-> feedOf(d.users[user.id])]]

\* The shop client loads its state with GET /api/user/state and keeps it.
ClientRead(P, s) ==
    /\ pc[s] = "idle"
    /\ \E cookie \in P.cookies :
          LET a == authMiddleware(cookie, now)
              req == Request("GET /api/user/state", cookie, 0, NoFile)
              r == IF a.ok THEN getUserState(DB, a.user)
                   ELSE [status |-> a.status, msg |-> a.msg, body |-> [cart |-> {}]]
          IN  /\ last' = [req |-> req, status |-> r.status, msg |-> r.msg,
                          user |-> IF a.ok THEN a.user ELSE NoUser,
                          token |-> NoCookie, body |-> r.body]
              /\ IF r.status = 200
                 THEN /\ pc' = [pc EXCEPT ![s] = "holding"]
                      /\ loc' = [loc EXCEPT ![s] = [route |-> "client",
                                                    cookie |-> cookie,
                                                    state |-> r.body]]
                 ELSE UNCHANGED <<pc, loc>>
    /\ UNCHANGED <<users, livestock, orders, proofHashes, adminNotifs, now, connVars>>

\* The client changes its cart and sends the state it holds with
\* PUT /api/user/state.
ClientSync(s) ==
    /\ pc[s] = "holding"
    /\ \E cart \in Carts :
          LET r == routePutUserState(DB, loc[s].cookie,
                                     [loc[s].state EXCEPT !.cart = cart], now)
          IN  /\ users' = r.db.users
              /\ last' = [req |-> Request("PUT /api/user/state", loc[s].cookie,
                                          0, NoFile),
                          status |-> r.status, msg |-> r.msg, user |-> r.user,
                          token |-> NoCookie]
    /\ pc' = [pc EXCEPT ![s] = "idle"]
    /\ loc' = [loc EXCEPT ![s] = [route |-> "none"]]
    /\ UNCHANGED <<livestock, orders, proofHashes, adminNotifs, now, connVars>>

\* State sync: alice and bob order and sync their state from two clients
\* while the console rejects orders.
Syncing ==
    [buyers |-> {tokenOf(1, now), tokenOf(2, now)},
     cookies |-> {tokenOf(1, now), tokenOf(2, now)},
     admins |-> {NoCookie},
     items |-> {{"g1"}},
     files |-> {NoFile},
     statuses |-> {}]

NextSync ==
    \/ PostOrder(Syncing)
    \/ AdminReject(Syncing)
    \/ \E s \in Slots : ClientRead(Syncing, s)
    \/ \E s \in Slots : ClientSync(s)

SpecSync == Init /\ [][NextSync]_vars

\* Carts: alice and bob save their cart, wishlist and addresses and order.
Shopping ==
    [buyers |-> {tokenOf(1, now), tokenOf(2, now)},
     cookies |-> {tokenOf(1, now), tokenOf(2, now)},
     admins |-> {NoCookie},
     items |-> {{"g1"}},
     files |-> {NoFile},
     statuses |-> {}]

NextCart ==
    \/ PostOrder(Shopping)
    \/ SyncState(Shopping)

SpecCart == Init /\ [][NextCart]_vars

\* Error answers: alice and a client without cookie use the cart, order and
\* cancel routes, the console rejects, and any one write may throw.
Erring ==
    [buyers |-> {tokenOf(1, now), NoCookie},
     cookies |-> {tokenOf(1, now), NoCookie},
     admins |-> {NoCookie},
     items |-> {{"g1"}},
     files |-> {NoFile},
     statuses |-> {}]

NextError ==
    \/ PostOrderFaulty(Erring)
    \/ CancelOrderFaulty(Erring)
    \/ PutUserStateFaulty(Erring)
    \/ AdminRejectFaulty(Erring)

SpecError == Init /\ [][NextError]_vars

\* Accounts: an empty User collection; two connections register, each
\* suspended at its awaits, and clients log in.
InitAuth ==
    /\ users = <<>>
    /\ livestock = [i \in ItemIds |-> newLivestockDoc("Available")]
    /\ orders = <<>>
    /\ proofHashes = {}
    /\ adminNotifs = EmptyBag
    /\ now = 0
    /\ last = [req |-> Request("none", NoCookie, 0, NoFile),
               status |-> 0, msg |-> "", user |-> NoUser, token |-> NoCookie]
    /\ pc = [s \in Slots |-> "idle"]
    /\ loc = [s \in Slots |-> [route |-> "none"]]
    /\ cached = [conn |-> "mongoose", promise |-> 1]
    /\ attempts = <<[state |-> "fulfilled", waiters |-> <<>>]>>
    /\ jobs = <<>>

NextAuth ==
    \/ \E s \in Slots : RegisterFind(s)
    \/ \E s \in Slots : RegisterSave(s)
    \/ Login

SpecAuth == InitAuth /\ [][NextAuth]_vars

\* The expiry sweep: alice orders, the admin console marks orders Pending
\* and clears its notifications, the clock advances; the timer and the
\* console's order list run the sweep.  No request takes an order out of
\* Pending, so only a sweep does.
Sweeping ==
    [buyers |-> {tokenOf(1, now)},
     cookies |-> {tokenOf(1, now)},
     admins |-> {NoCookie},
     items |-> {{"g1"}, {"g1", "g2"}},
     files |-> {NoFile},
     statuses |-> {"Pending"}]

NextSweep ==
    \/ PostOrder(Sweeping)
    \/ AdminUpdateOrder(Sweeping)
    \/ AdminClearNotifications(Sweeping)
    \/ ExpireTimer
    \/ AdminGetOrders
    \/ \E s \in Slots : ExpireStep(s)
    \/ Tick

\* The timer keeps firing and the event loop resumes every awaiting sweep.
SpecSweep ==
    /\ Init /\ [][NextSweep]_vars
    /\ WF_vars(ExpireTimer)
    /\ \A s \in Slots : WF_vars(ExpireStep(s))

(***************************************************************************)
(* Properties                                                              *)
(***************************************************************************)
ActiveOrder(o) == o.status \notin {"Cancelled", "Payment Rejected"}
validCookie(cookie, t) == cookie.sig # NoCookie.sig /\ jwtVerify(cookie, t)
ItemsHaveStatus(ls, ids, status) ==
    \A i \in ids \cap ItemIds : ls[i] # NoDoc => ls[i].status = status
NoDataChange ==
    /\ users' = users /\ livestock' = livestock /\ orders' = orders
    /\ proofHashes' = proofHashes /\ adminNotifs' = adminNotifs

\* C1: between requests, a livestock item is Sold if and only if some
\* order that is neither Cancelled nor Payment Rejected contains it.
C1_SoldIffInActiveOrder ==
    \A i \in ItemIds :
        livestock[i] # NoDoc =>
            (livestock[i].status = "Sold"
             <=> \E o \in 1..Len(orders) :
                    i \in orders[o].items /\ ActiveOrder(orders[o]))

\* C2: when POST /api/orders answers 201, every existing item the new order
\* lists is Sold and the status of every other item is what it was.
C2_OrderMarksItemsSold ==
    [][(last'.req.route = "POST /api/orders" /\ last'.status = 201)
        => /\ Len(orders') = Len(orders) + 1
           /\ last'.req.oid = Len(orders')
           /\ ItemsHaveStatus(livestock', orders'[Len(orders')].items, "Sold")
           /\ \A i \in ItemIds \ orders'[Len(orders')].items :
                livestock'[i] = livestock[i]]_vars

C2_Witness ==
    /\ last.req.route = "POST /api/orders" /\ last.status = 201
    /\ Len(orders) = 2
    /\ orders[2].items = {"g1"}
    /\ livestock["g1"].status = "Sold"
    /\ livestock["g2"].status = "Sold"

\* C3: when the owner's cancel of a Processing or Pending order answers
\* success, the order is Cancelled and every item it lists is Available.
C3_CancelRestocksItems ==
    [][(/\ last'.req.route = "PUT /api/orders/:id/cancel"
        /\ last'.status = 200
        /\ orderExists(DB, last'.req.oid)
        /\ orders[last'.req.oid].userId = last'.user.id
        /\ orders[last'.req.oid].status \in {"Processing", "Pending"})
        => /\ orders'[last'.req.oid].status = "Cancelled"
           /\ ItemsHaveStatus(livestock', orders'[last'.req.oid].items,
                              "Available")]_vars

C3_Witness ==
    /\ last.req.route = "PUT /api/orders/:id/cancel" /\ last.status = 200
    /\ orders[last.req.oid].status = "Cancelled"
    /\ orders[last.req.oid].userId = last.user.id
    /\ orders[last.req.oid].items = {"g1", "g2"}
    /\ ItemsHaveStatus(livestock, {"g1", "g2"}, "Available")

\* C4 as claimed: a proof once accepted for an order is never accepted for
\* another one, so no two orders hold a proof of the same content hash.
C4_ProofNeverAcceptedTwice ==
    \A a, b \in 1..Len(orders) :
        (a # b /\ orders[a].paymentProof # NoFile)
            => getFileHash(orders[a].paymentProof)
                 # getFileHash(orders[b].paymentProof)

\* C4 as amended: a proof whose hash the ProofHash collection holds for
\* another order when an authenticated user submits it, by POST /api/orders
\* or by re-upload, is answered 400 'Duplicate proof detected!' and nothing
\* in the database changes.
C4_RegisteredProofRejected ==
    [][(/\ last'.req.route \in {"POST /api/orders", "PUT /api/orders/:id/reupload"}
        /\ last'.req.file # NoFile
        /\ last'.user.id # NoUser.id
        /\ \E p \in proofHashes :
              p.hash = getFileHash(last'.req.file) /\ p.orderId # last'.req.oid)
        => /\ last'.status = 400
           /\ last'.msg = "Duplicate proof detected!"
           /\ NoDataChange]_vars

C4_Witness ==
    /\ last.req.route = "POST /api/orders"
    /\ last.status = 400 /\ last.msg = "Duplicate proof detected!"
    /\ \E p \in proofHashes : p.hash = getFileHash(last.req.file)
    /\ \E i \in ItemIds : livestock[i].status = "Available"

\* C6: after a successful admin reject the order is Payment Rejected with
\* the reason stored, its items are Available, and the owner's feed holds
\* an unseen notification about the order.
C6_RejectStoresReasonAndNotifies ==
    (last.req.route = "PUT /api/admin/orders/:id/reject" /\ last.status = 200)
        => LET o == orders[last.req.oid]
           IN  /\ o.status = "Payment Rejected"
               /\ ItemsHaveStatus(livestock, o.items, "Available")
               /\ "rejectionReason" \in DOMAIN o
               /\ "notifications" \in DOMAIN users[o.userId]
               /\ \E k \in DOMAIN users[o.userId].notifications :
                     /\ users[o.userId].notifications[k].orderId = last.req.oid
                     /\ ~users[o.userId].notifications[k].seen

\* C7: a request without a valid token, to any route that reads or writes
\* the database, is answered 401 and changes nothing.
C7_EveryRouteGuarded ==
    [][(/\ last'.req.route \notin {"none", "timer", "clock"}
        /\ ~validCookie(last'.req.cookie, now'))
        => (last'.status = 401 /\ NoDataChange)]_vars

GuardedRoutes ==
    {"POST /api/orders", "PUT /api/orders/:id/cancel",
     "PUT /api/orders/:id/reupload", "PUT /api/user/state", "GET /api/auth/me"}

\* C8: behind authMiddleware, a request whose token is absent, badly signed
\* or expired is answered 401, its handler does not run and nothing changes;
\* with a valid token the handler runs with req.user equal to the id, email
\* and name signed into the token.
C8_AuthMiddlewareGuards ==
    [][(last'.req.route \in GuardedRoutes)
        => IF validCookie(last'.req.cookie, now')
           THEN /\ last'.user = [id |-> last'.req.cookie.id,
                                 email |-> last'.req.cookie.email,
                                 name |-> last'.req.cookie.name]
                /\ last'.status # 401
           ELSE /\ last'.status = 401
                /\ last'.user = NoUser
                /\ NoDataChange]_vars

C8_Witness ==
    /\ last.req.route = "PUT /api/orders/:id/cancel"
    /\ last.req.cookie.sig = JWT_SECRET
    /\ last.req.cookie.exp <= now
    /\ last.status = 401
    /\ last.req.oid \in 1..Len(orders)
    /\ orders[last.req.oid].userId = last.req.cookie.id
    /\ orders[last.req.oid].status = "Processing"

ExpiredPending(o) ==
    /\ o \in 1..Len(orders)
    /\ orders[o].status = "Pending"
    /\ orders[o].createdAt < now - ExpiryMinutes

warnings(ns, o) == CopiesIn([type |-> "warning", orderId |-> o], ns)

\* C5: an order that is Pending and was created more than 30 minutes ago
\* is, the sweep running and no request changing the order, eventually
\* Cancelled with every item it lists Available and a warning notification
\* recorded for it; the step that cancels it records exactly one.
C5_ExpiredOrderCancelled ==
    /\ \A o \in OrderIds :
          ExpiredPending(o)
            ~> /\ o \in 1..Len(orders)
               /\ orders[o].status = "Cancelled"
               /\ ItemsHaveStatus(livestock, orders[o].items, "Available")
               /\ warnings(adminNotifs, o) >= 1
    /\ [][\A o \in 1..Len(orders) :
            (ExpiredPending(o) /\ orders'[o].status # "Pending")
                => /\ orders'[o].status = "Cancelled"
                   /\ ItemsHaveStatus(livestock', orders'[o].items, "Available")
                   /\ warnings(adminNotifs', o) = warnings(adminNotifs, o) + 1]_vars

C5_Witness ==
    /\ last.req.route = "timer"
    /\ last.req.oid \in 1..Len(orders)
    /\ orders[last.req.oid].status = "Cancelled"
    /\ orders[last.req.oid].createdAt < now - ExpiryMinutes
    /\ orders[last.req.oid].items = {"g1", "g2"}
    /\ ItemsHaveStatus(livestock, {"g1", "g2"}, "Available")
    /\ warnings(adminNotifs, last.req.oid) = 1

UniqueEmails ==
    \A i, j \in 1..Len(users) : i # j => users[i].email # users[j].email

EmailTaken(email) ==
    \E i \in 1..Len(users) : users[i].email = normalizeEmail(email)

\* C9: a registration answered while its email belongs to a user is not
\* answered 201, sets no auth cookie and creates no user; and whatever the
\* interleaving of registrations, no two users have the same email.
C9_DuplicateEmailRefused ==
    /\ []UniqueEmails
    /\ [][(/\ last'.req.route = "POST /api/auth/register"
            /\ last'.status # 0
            /\ EmailTaken(last'.req.email))
           => /\ last'.status # 201
              /\ last'.token = NoCookie
              /\ users' = users]_vars

C9_Witness ==
    /\ last.req.route = "POST /api/auth/register"
    /\ last.status = 500
    /\ last.req.email = "A@x.in"
    /\ Len(users) = 1
    /\ users[1].email = "a@x.in"

\* The stored hash is the hash of this password under the stored salt.
HashOf(password, stored) == stored = bcryptHash(password, stored.salt)

CredentialsMatch(email, password) ==
    \E i \in 1..Len(users) :
        /\ users[i].email = normalizeEmail(email)
        /\ HashOf(password, users[i].password)

\* C10 as claimed: a login whose email is unknown or whose password does not
\* match is answered 400 'Invalid credentials' and gets no token; a token is
\* issued only to an existing user whose password matches.
C10_BadLoginInvalidCredentials ==
    [][(last'.req.route = "POST /api/auth/login")
        => /\ ~CredentialsMatch(last'.req.email, last'.req.password)
                => /\ last'.status = 400
                   /\ last'.msg = "Invalid credentials"
                   /\ last'.token = NoCookie
           /\ last'.token # NoCookie
                => CredentialsMatch(last'.req.email, last'.req.password)]_vars

\* C10 as amended: a login that supplies an email and a password, with the
\* email unknown or the password not matching, is answered 400 'Invalid
\* credentials'; one that leaves either out is answered 400 'Credentials
\* required'; neither gets a token, and a token is issued only to an
\* existing user whose password matches.
C10_BadLoginRefused ==
    [][(last'.req.route = "POST /api/auth/login")
        => /\ ~CredentialsMatch(last'.req.email, last'.req.password)
                => /\ last'.status = 400
                   /\ last'.msg = IF last'.req.email = "" \/ last'.req.password = ""
                                  THEN "Credentials required"
                                  ELSE "Invalid credentials"
                   /\ last'.token = NoCookie
           /\ last'.token # NoCookie
                => /\ CredentialsMatch(last'.req.email, last'.req.password)
                   /\ last'.status = 200
                   /\ last'.token.id \in 1..Len(users)
                   /\ users[last'.token.id].email = normalizeEmail(last'.req.email)
           /\ users' = users]_vars

C10_Witness ==
    /\ last.req.route = "POST /api/auth/login"
    /\ last.status = 400 /\ last.msg = "Invalid credentials"
    /\ last.req.password = "pw2"
    /\ \E i \in 1..Len(users) :
          /\ users[i].email = last.req.email
          /\ HashOf("pw1", users[i].password)

OwnerRoutes ==
    {"PUT /api/orders/:id/cancel", "PUT /api/orders/:id/reupload",
     "GET /api/orders/:id/invoice"}

\* The request just answered came from an authenticated user who does not
\* own the order it names.
ByNonOwner ==
    /\ last'.req.route \in OwnerRoutes
    /\ last'.user.id # NoUser.id
    /\ orderExists(DB, last'.req.oid)
    /\ orders[last'.req.oid].userId # last'.user.id

OwnershipKept ==
    /\ \A o \in 1..Len(orders) :
          o \in 1..Len(orders') /\ orders'[o].userId = orders[o].userId
    /\ \A o \in 1..Len(orders') : orders'[o].userId \in 1..Len(users')
    /\ (last'.req.route = "GET /api/orders" /\ last'.user.id # NoUser.id)
          => last'.body = {o \in 1..Len(orders) :
                              orders[o].userId = last'.user.id}

\* C11 as claimed: an order's userId never changes; a cancel, re-upload or
\* invoice request of an authenticated user who does not own the order is
\* answered 404 or 403 and changes nothing; GET /api/orders lists only the
\* caller's orders.
C11_NonOwnerGets404Or403 ==
    [][/\ OwnershipKept
       /\ ByNonOwner => (last'.status \in {403, 404} /\ NoDataChange)]_vars

\* C11 as amended: the same, the refusal being 404 for cancel, 403 for the
\* invoice, and for re-upload 400 when no file is sent or the proof is
\* registered for another order and 404 otherwise.
C11_NonOwnerRefused ==
    [][/\ OwnershipKept
       /\ ByNonOwner
            => /\ NoDataChange
               /\ last'.status =
                    CASE last'.req.route = "PUT /api/orders/:id/cancel" -> 404
                      [] last'.req.route = "GET /api/orders/:id/invoice" -> 403
                      [] OTHER ->
                           IF \/ last'.req.file = NoFile
                              \/ \E p \in proofHashes :
                                    /\ p.hash = getFileHash(last'.req.file)
                                    /\ p.orderId # last'.req.oid
                           THEN 400 ELSE 404]_vars

C11_Witness ==
    /\ last.req.route = "PUT /api/orders/:id/cancel"
    /\ last.status = 404
    /\ last.user.id = 2
    /\ orderExists(DB, last.req.oid)
    /\ orders[last.req.oid].userId = 1
    /\ orders[last.req.oid].status = "Processing"

OrderStatuses ==
    {"Pending", "Processing", "Delivered", "Cancelled", "Payment Rejected"}

\* C12: the status of every order is one of Pending, Processing, Delivered,
\* Cancelled and Payment Rejected.
C12_OrderStatusInLifecycle ==
    \A o \in 1..Len(orders) : orders[o].status \in OrderStatuses

\* C13: the status of every livestock item is Available or Sold.
C13_LivestockStatusInEnum ==
    \A i \in ItemIds :
        livestock[i] # NoDoc => livestock[i].status \in {"Available", "Sold"}

\* Sweep s has read order o and has not written it yet.
InFlight(s, o) == pc[s] = "sweeping" /\ o \in loc[s].todo

\* C14: a sweep is not coordinated with the admin's status update nor with
\* another sweep: once it has read an order as expired it goes on, whatever
\* the order's status has become, to write Cancelled over it, set its items
\* Available and record one more warning notification.
C14_SweepOverwritesUncoordinated ==
    /\ \A s \in Slots, o \in OrderIds :
          InFlight(s, o)
            ~> /\ ~InFlight(s, o)
               /\ o \in 1..Len(orders)
               /\ orders[o].status = "Cancelled"
    /\ [][\A s \in Slots :
            (pc[s] = "sweeping" /\ loc'[s] # loc[s])
              => LET o == nextExpired(loc[s].todo)
                 IN  /\ orders'[o].status = "Cancelled"
                     /\ ItemsHaveStatus(livestock', orders'[o].items, "Available")
                     /\ warnings(adminNotifs', o) = warnings(adminNotifs, o) + 1]_vars

\* One sweep has expired the order, the admin has marked it Delivered since,
\* and a second sweep that read it while it was Pending is about to write.
C14_Witness ==
    \E o \in 1..Len(orders) :
        /\ InFlight(AdminSlot, o)
        /\ orders[o].status = "Delivered"
        /\ warnings(adminNotifs, o) = 1
        /\ \A i \in orders[o].items : livestock[i].status = "Available"

\* The writes of the handler just run, as far as they show in the state.
OrderWritten(o, status) ==
    o \in 1..Len(orders') /\ orders'[o].status = status

\* C15, the writes: a write that throws partway through order create, user
\* cancel, admin reject or the sweep leaves every earlier write in place and
\* performs none of the later ones.
PartialWritesStay ==
    /\ (last'.req.route = "POST /api/orders" /\ last'.req.fail = "restock")
          => /\ Len(orders') = Len(orders) + 1
             /\ OrderWritten(Len(orders'), "Processing")
             /\ livestock' = livestock
             /\ users' = users
    /\ (last'.req.route = "POST /api/orders" /\ last'.req.fail = "cart")
          => /\ Len(orders') = Len(orders) + 1
             /\ ItemsHaveStatus(livestock', orders'[Len(orders')].items, "Sold")
             /\ users' = users
    /\ (last'.req.route = "POST /api/orders" /\ last'.req.fail = "proof")
          => /\ Len(orders') = Len(orders) + 1
             /\ proofHashes' = proofHashes
             /\ adminNotifs' = adminNotifs
             /\ livestock' = livestock
    /\ (last'.req.route = "PUT /api/orders/:id/cancel" /\ last'.req.fail = "restock")
          => /\ OrderWritten(last'.req.oid, "Cancelled")
             /\ livestock' = livestock
             /\ proofHashes' = proofHashes
    /\ (last'.req.route = "PUT /api/orders/:id/cancel" /\ last'.req.fail = "proof")
          => /\ OrderWritten(last'.req.oid, "Cancelled")
             /\ ItemsHaveStatus(livestock', orders'[last'.req.oid].items,
                                "Available")
             /\ proofHashes' = proofHashes
    /\ (last'.req.route = "PUT /api/admin/orders/:id/reject"
          /\ last'.req.fail = "restock")
          => /\ OrderWritten(last'.req.oid, "Payment Rejected")
             /\ livestock' = livestock
    /\ (last'.req.route \in {"timer", "GET /api/admin/orders"}
          /\ last'.req.fail = "restock")
          => /\ OrderWritten(last'.req.oid, "Cancelled")
             /\ livestock' = livestock
             /\ adminNotifs' = adminNotifs
    /\ (last'.req.route \in {"timer", "GET /api/admin/orders"}
          /\ last'.req.fail = "notify")
          => /\ OrderWritten(last'.req.oid, "Cancelled")
             /\ ItemsHaveStatus(livestock', orders'[last'.req.oid].items,
                                "Available")
             /\ adminNotifs' = adminNotifs
    /\ ("fail" \in DOMAIN last'.req /\ last'.req.fail = "save")
          => NoDataChange

\* The step is one in which a write of a handler threw.
WriteThrew == "threw" \in DOMAIN last' /\ last'.threw /\ last' # last

C16_FailuresAnswered5xx ==
    [][/\ WriteThrew => last'.status \in 500..599
       /\ ("threw" \in DOMAIN last' /\ last'.status \in 400..499)
            => ~last'.threw]_vars

CancelRoute == "PUT /api/orders/:id/cancel"

\* The step is the cancel route setting order o to 'Cancelled'.
CancelWrites(o) ==
    /\ last'.req.route = CancelRoute /\ last'.req.oid = o
    /\ o \in 1..Len(orders)
    /\ orders'[o].status = "Cancelled" /\ orders'[o] # orders[o]

\* A cancel request for an order that is neither 'Processing' nor 'Pending'
\* when the handler reads it is answered 400 and changes nothing.
CancelRefused ==
    (/\ last'.req.route = CancelRoute /\ last' # last
     /\ validCookie(last'.req.cookie, now)
     /\ last'.req.oid \in 1..Len(orders)
     /\ orders[last'.req.oid].userId = last'.user.id
     /\ orders[last'.req.oid].status \notin {"Processing", "Pending"})
    => (last'.status = 400 /\ last'.msg = "Cannot cancel order" /\ NoDataChange)

\* C17: user cancel writes 'Cancelled' only over 'Processing' or 'Pending',
\* also when an admin update falls between its read and its save; any other
\* status is answered 400 'Cannot cancel order' and nothing changes.
C17_CancelOnlyFromProcessingOrPending ==
    [][/\ \A o \in OrderIds :
            CancelWrites(o) => orders[o].status \in {"Processing", "Pending"}
       /\ CancelRefused]_vars

Ordered201 == last.req.route = "POST /api/orders" /\ last.status = 201

\* C18: when POST /api/orders answers 201, the ordering user's cart is
\* empty, and that user's wishlist and addresses and every other user's
\* cart, wishlist and addresses are as they were.
C18_OrderClearsOnlyOwnCart ==
    [][(last'.req.route = "POST /api/orders" /\ last'.status = 201)
        => /\ last'.user.id \in 1..Len(users)
           /\ users' = [users EXCEPT ![last'.user.id].cart = {}]]_vars

\* alice has ordered: her cart is empty, her wishlist and addresses are not,
\* and bob's cart is not.
C18_Witness ==
    /\ Ordered201 /\ last.user.id = 1
    /\ users[1].cart = {} /\ users[1].wishlist # {} /\ users[1].addresses # {}
    /\ users[2].cart # {}

\* C19: no livestock item is contained in two orders that are both active
\* (neither 'Cancelled' nor 'Payment Rejected').
C19_NoItemInTwoActiveOrders ==
    \A o1, o2 \in 1..Len(orders) :
        (o1 # o2 /\ ActiveOrder(orders[o1]) /\ ActiveOrder(orders[o2]))
            => orders[o1].items \cap orders[o2].items = {}

ReuploadRoute == "PUT /api/orders/:id/reupload"
UserRoutes ==
    {"POST /api/orders", CancelRoute, ReuploadRoute, "PUT /api/user/state",
     "GET /api/orders", "GET /api/orders/:id/invoice"}

\* C20: a 'Cancelled' order keeps its status through every user-initiated
\* request, a cancel of it is answered 400, and when re-upload sets an order
\* to 'Processing' every item of the order is 'Sold'.
C20_CancelledIsFinalForUsers ==
    [][\A o \in 1..Len(orders) :
          /\ (orders[o].status = "Cancelled" /\ last'.req.route \in UserRoutes)
                => orders'[o].status = "Cancelled"
          /\ (/\ orders[o].status = "Cancelled"
              /\ last'.req.route = CancelRoute /\ last'.req.oid = o
              /\ last'.user # NoUser /\ last'.user.id = orders[o].userId)
                => last'.status = 400
          /\ (/\ last'.req.route = ReuploadRoute /\ last'.req.oid = o
              /\ last'.status = 200 /\ orders'[o].status = "Processing")
                => ItemsHaveStatus(livestock', orders'[o].items, "Sold")]_vars

NoHandlerMidFlight == \A s \in Slots : pc[s] = "idle"
ProofRecordsOf(o) == {p \in proofHashes : p.orderId = o}

\* C21: with no handler mid-flight, each order has at most one ProofHash
\* record, each hash has at most one ProofHash record, and an order has a
\* record exactly when it has a stored payment proof, the record's hash being
\* the hash of that proof.
C21_ProofRegistryMatchesOrders ==
    NoHandlerMidFlight =>
        /\ \A p, q \in proofHashes :
              (p.orderId = q.orderId \/ p.hash = q.hash) => p = q
        /\ \A o \in 1..Len(orders) :
              /\ (ProofRecordsOf(o) # {}) <=> (orders[o].paymentProof # NoFile)
              /\ \A p \in ProofRecordsOf(o) :
                    p.hash = getFileHash(orders[o].paymentProof)

\* The attempts that are pending or have succeeded.
LiveAttempts == {p \in 1..Len(attempts) : attempts[p].state # "rejected"}
Awaiting == {s \in Slots : pc[s] = "awaiting"}

\* C22: mongoose.connect is never started while an earlier attempt is
\* pending or has succeeded; the requests waiting during an attempt await
\* the one cached promise; when the attempt fails each of them is answered
\* 500 'Database connection failed', cached.conn stays null and
\* cached.promise is reset, and the next request starts one fresh attempt.
C22_OneConnectAttemptAtATime ==
    [][/\ Len(attempts') > Len(attempts)
            => (LiveAttempts = {} /\ Len(attempts') = Len(attempts) + 1)
       /\ \A s \in Awaiting :
            attempts[loc[s].promise].state = "pending"
                => loc[s].promise = cached.promise
       /\ \A s \in Awaiting :
            (pc'[s] = "idle" /\ attempts[loc[s].promise].state = "rejected")
                => /\ last'.status = 500
                   /\ last'.msg = "Database connection failed"
                   /\ cached'.conn = Null /\ cached'.promise = 0
       /\ (jobs = <<>> /\ LiveAttempts = {} /\ last'.msg = "await")
            => Len(attempts') = Len(attempts) + 1]_vars

\* A failed attempt has answered its two waiting requests and a later
\* request has started the second attempt.
C22_Witness ==
    /\ Len(attempts) = 2
    /\ attempts[1].state = "rejected" /\ Len(attempts[1].waiters) = 2
    /\ attempts[2].state = "pending" /\ cached.promise = 2
    /\ cached.conn = Null

SweepRoutes == {"timer", "GET /api/admin/orders"}

\* C23: an order created by POST /api/orders starts as 'Processing', with or
\* without a proof; an order becomes 'Pending' only in a step of
\* PUT /api/admin/orders/:id; a sweep takes up only orders that are
\* 'Pending' when it reads them and changes no other order.
C23_OrdersStartProcessing ==
    [][/\ \A o \in 1..Len(orders') :
            o > Len(orders)
                => /\ orders'[o].status = "Processing"
                   /\ last'.req.route = "POST /api/orders"
       /\ \A o \in 1..Len(orders') :
            (/\ orders'[o].status = "Pending"
             /\ (o > Len(orders) \/ orders[o].status # "Pending"))
                => last'.req.route = "PUT /api/admin/orders/:id"
       /\ \A s \in Slots :
            (pc'[s] = "sweeping" /\ pc[s] # "sweeping")
                => \A o \in loc'[s].todo : orders[o].status = "Pending"
       /\ \A o \in 1..Len(orders) :
            (last'.req.route \in SweepRoutes /\ orders'[o] # orders[o])
                => \E s \in Slots : pc[s] = "sweeping" /\ o \in loc[s].todo]_vars

\* One order was created without proof, set 'Pending' by the console and
\* cancelled by a sweep; another, created with a proof, is 'Processing'.
C23_Witness ==
    /\ Len(orders) = 2
    /\ \E o \in 1..2 :
          /\ orders[o].paymentProof = NoFile /\ orders[o].status = "Cancelled"
          /\ [type |-> "warning", orderId |-> o] \in DOMAIN adminNotifs
          /\ orders[3 - o].paymentProof # NoFile
          /\ orders[3 - o].status = "Processing"

SyncedPaths == {"cart", "wishlist", "addresses", "notifications"}

\* C24: after a state sync of a user, the rejection notification of each of
\* that user's rejected orders is in the user's stored feed, and the sync
\* changed no field of the user other than cart, wishlist, addresses and
\* notifications, and no other user.
C24_RejectionSurvivesSync ==
    [][(/\ last'.req.route = "PUT /api/user/state" /\ last'.status = 200
        /\ last'.user # NoUser /\ last'.user.id \in 1..Len(users))
        => LET u == last'.user.id
           IN  /\ \A o \in 1..Len(orders) :
                     (orders[o].userId = u /\ orders[o].status = "Payment Rejected")
                         => \E i \in 1..Len(feedOf(users'[u])) :
                                feedOf(users'[u])[i].orderId = o
               /\ \A f \in DOMAIN users[u] \ SyncedPaths :
                     users'[u][f] = users[u][f]
               /\ \A v \in 1..Len(users) : v # u => users'[v] = users[v]]_vars

====
